---- MODULE Spec2Model ----
(***************************************************************************)
(* Model of src/src/main.rs: the Everything search adapter.                *)
(*                                                                         *)
(*  - the process-wide native handle  DLL : Lazy<Mutex<Option<EvDll>>>     *)
(*  - the query executor  search()  and the status operations              *)
(*  - the native library's configuration / result state, as the entry      *)
(*    points of EvDll use it                                               *)
(*  - the front ends' query builders (tool handlers and CLI subcommands)   *)
(*                                                                         *)
(* Text is a sequence of Unicode scalar values (integers).  A formatted    *)
(* return value is a sequence of tokens: Lit (a literal of a format        *)
(* string), Num (a number printed by {}), Txt (a piece of text printed by  *)
(* {}), Err (an error printed by {}).                                      *)
(***************************************************************************)
EXTENDS Integers, Sequences, FiniteSets, TLC

(***************************** bounds **************************************)
\* number of threads of the tool server that may call into the executor
NumThreads == 2
\* largest number of matches the native index reports for one query
MaxTotal == 2
\* cap on the load counter (EvDll::load runs; kept finite for the checker)
MaxLoads == 2

(************************ program constants ********************************)
CapMin == 1
CapMax == 500
RequestFlags == 275            \* 0x113
DirBit == 16                   \* 0x10
BufLen == 32768
Half == 65536                  \* 2^16

\* A u32 that may exceed the checker's integers (a requested cap, the library's
\* cap) is the pair <<high half, low half>> of its 16-bit halves.
U32Of(k) == <<k \div Half, k % Half>>
U32Max == <<Half - 1, Half - 1>>
U32Lt(a, b) == a[1] < b[1] \/ (a[1] = b[1] /\ a[2] < b[2])

Threads == 1..NumThreads
NoThread == 0

(***************************** text ****************************************)
Lit(s) == [lit |-> s]
Num(k) == [num |-> k]
Txt(s) == [txt |-> s]
Err(e) == [err |-> e]

Min(a, b) == IF a < b THEN a ELSE b

\* u32::clamp(self, min, max)
Clamp(v, lo, hi) == IF U32Lt(v, lo) THEN lo ELSE IF U32Lt(hi, v) THEN hi ELSE v

\* bool as i32
AsI32(b) == IF b THEN 1 ELSE 0

\* index of the first element of s equal to c, 0 when there is none
RECURSIVE PositionFrom(_, _, _)
PositionFrom(s, c, k) ==
    IF k > Len(s) THEN 0
    ELSE IF s[k] = c THEN k
    ELSE PositionFrom(s, c, k + 1)

Position(s, c) == PositionFrom(s, c, 1)

\* UTF-16 encoding of one scalar value
EncodeUtf16(cp) ==
    IF cp < 65536 THEN <<cp>>
    ELSE <<55296 + ((cp - 65536) \div 1024), 56320 + ((cp - 65536) % 1024)>>

RECURSIVE ToUtf16(_)
ToUtf16(s) == IF s = <<>> THEN <<>> ELSE EncodeUtf16(Head(s)) \o ToUtf16(Tail(s))

\* (a conversion that cuts the text at its first nul instead of failing)
U16CStringCutAtNul(q) ==
    LET w == ToUtf16(q)
        p == Position(w, 0)
    IN  [ok |-> TRUE, w |-> IF p = 0 THEN w ELSE SubSeq(w, 1, p - 1), pos |-> 0]

\* U16CString::from_str: the UTF-16 form of q, or the error for an interior nul
U16CStringFromStr(q) ==
    LET w == ToUtf16(q)
        p == Position(w, 0)
    IN  IF p = 0 THEN [ok |-> TRUE, w |-> w, pos |-> 0]
        ELSE [ok |-> FALSE, w |-> <<>>, pos |-> p - 1]

IsHigh(u) == u >= 55296 /\ u <= 56319
IsLow(u) == u >= 56320 /\ u <= 57343

\* String::from_utf16_lossy: a surrogate pair is one scalar value, an unpaired
\* surrogate is U+FFFD
RECURSIVE FromUtf16Lossy(_)
FromUtf16Lossy(w) ==
    IF w = <<>> THEN <<>>
    ELSE LET u == Head(w) IN
         IF IsHigh(u) /\ Len(w) >= 2 /\ IsLow(w[2])
         THEN <<65536 + (u - 55296) * 1024 + (w[2] - 56320)>>
              \o FromUtf16Lossy(Tail(Tail(w)))
         ELSE IF IsHigh(u) \/ IsLow(u)
         THEN <<65533>> \o FromUtf16Lossy(Tail(w))
         ELSE <<u>> \o FromUtf16Lossy(Tail(w))

(************************* the native index *********************************)
\* Version components the library reports (get_ver[0..3])
Version == <<1, 4, 1, 1026>>

\* native last-error codes a failed query may leave (memory, IPC)
ErrCodes == {1, 2}

\* The k-th row (1-based) of a result list: a UTF-16 path and an attribute mask.
\* Rows differ in kind: a directory, a file with a surrogate pair in its name, a
\* directory whose name holds an unpaired surrogate.
RowPath(k) ==
    IF k % 3 = 1 THEN <<67, 58, 92, 96 + k>>
    ELSE IF k % 3 = 2 THEN <<55357, 56513, 96 + k>>
    ELSE <<96 + k, 55357>>

RowAttr(k) == IF k % 3 = 1 THEN 16 ELSE IF k % 3 = 2 THEN 32 ELSE 48

\* Attribute masks are kept modulo 2^16 (the directory bit is bit 4).  An index
\* that is not a result has INVALID_FILE_ATTRIBUTES, all bits set.
InvalidAttr == Half - 1

\* the library's state before any call configures it
NativeInit ==
    [search |-> <<>>, max |-> U32Max, case |-> 0, word |-> 0, regex |-> 0,
     path |-> 0, flags |-> 3, num |-> 0, tot |-> 0, err |-> 0]

(***************************** requests ************************************)
QA == <<97>>                   \* "a"
QB == <<128193, 98>>           \* U+1F4C1 "b": needs a surrogate pair
QNul == <<97, 0, 98>>          \* "a\0b": interior nul
Queries == {QA, QB, QNul}

Caps == {U32Of(k) : k \in {0, 1, 2, 50, 500, 501}} \cup {<<1, 0>>, U32Max}

\* case, word, regex, path: none, each one alone, all
Modifiers ==
    {<<FALSE, FALSE, FALSE, FALSE>>, <<TRUE, FALSE, FALSE, FALSE>>,
     <<FALSE, TRUE, FALSE, FALSE>>, <<FALSE, FALSE, TRUE, FALSE>>,
     <<FALSE, FALSE, FALSE, TRUE>>, <<TRUE, TRUE, TRUE, TRUE>>}

BaseArgs ==
    [op |-> "search", q |-> QA, max |-> U32Of(50), case |-> FALSE, word |-> FALSE,
     regex |-> FALSE, path |-> FALSE]

\* arguments search() is called with: each argument varies over its whole set
\* against the base call
SearchArgs ==
    {[BaseArgs EXCEPT !.q = x] : x \in Queries}
    \cup {[BaseArgs EXCEPT !.max = x] : x \in Caps}
    \cup {[BaseArgs EXCEPT !.case = f[1], !.word = f[2], !.regex = f[3],
                            !.path = f[4]] : f \in Modifiers}

StatusArgs == [BaseArgs EXCEPT !.op = "status", !.q = <<>>, !.max = U32Of(0)]

\* the tool server's calls: every search tool ends in search(), plus status
ToolCalls == SearchArgs \cup {StatusArgs}

\* the CLI's calls: its subcommands pass word = false and path = false
CliCalls == {a \in SearchArgs : ~a.word /\ ~a.path} \cup {StatusArgs}

(****************************** state **************************************)
VARIABLES
    proc,        \* "mcp" (tool server), "cli" (one subcommand), "exit0", "exit1"
    libPresent,  \* whether Everything64.dll can be loaded right now
    lazy,        \* state of the Lazy cell DLL: "uninit", "running", "ready"
    dll,         \* the Option<EvDll> in the mutex: "unset", "some", "none"
    loads,       \* how often EvDll::load has run
    lock,        \* owner of the mutex DLL, NoThread when free
    native,      \* the library's configuration, result list and last error
    th,          \* per thread: position, arguments and locals of its call
    last,        \* outcome of the call that returned last
    fe           \* a front end's handling of one request, up to its call of search()

vars == <<proc, libPresent, lazy, dll, loads, lock, native, th, last, fe>>

\* the executor's variables
exec == <<proc, libPresent, lazy, dll, loads, lock, native, th, last>>

\* no request is being built
FeOff == [pc |-> "off"]

\* what a thread's own query call returned and left in the library
NoSnap == [valid |-> FALSE, ok |-> FALSE, cfg |-> NativeInit]

\* a thread outside a call; within a call, ffi is the trace of entry points it
\* has invoked, atq the library's state as its query call left it, and was the
\* regex setting it found in the library before its first setter
Idle ==
    [pc |-> "idle", op |-> "none", q |-> <<>>, max |-> U32Of(0), case |-> FALSE,
     word |-> FALSE, regex |-> FALSE, path |-> FALSE,
     qw |-> <<>>, n |-> 0, i |-> 0, out |-> <<>>, buf |-> <<>>,
     ret |-> <<>>, kind |-> "none", ffi |-> <<>>, atq |-> NoSnap, was |-> 0]

Init ==
    /\ proc \in {"mcp", "cli"}
    /\ libPresent \in BOOLEAN
    /\ lazy = "uninit"
    /\ dll = "unset"
    /\ loads = 0
    /\ lock = NoThread
    /\ native = NativeInit
    /\ th = [t \in Threads |-> Idle]
    /\ last = "none"
    /\ fe = FeOff

\* positions between Mutex::lock returning and the guard being dropped
Inside == {"as_ref", "conv", "set_search", "set_max", "set_case", "set_word",
           "set_regex", "set_path", "set_flags", "query", "get_err", "get_num",
           "get_tot", "get_path", "get_attr", "is_loaded", "get_ver", "ret",
           "exit1"}

Set(t, r) == th' = [th EXCEPT ![t] = r]

\* the call of entry point f is recorded in the calling thread's trace
Ffi(r, f) == [r EXCEPT !.ffi = Append(r.ffi, f)]

Running == proc \in {"mcp", "cli"}

(*********************** the Lazy cell and the mutex ************************)
\* Lazy::force: the closure runs only for the caller that finds the cell
\* uninitialised; a caller that finds it running waits for it
\* (a cell that runs its closure again after a cached failure)
NeedsInitRetry == lazy = "uninit" \/ dll = "none"

NeedsInit == lazy = "uninit"

\* Mutex::lock returns only when no other thread holds the guard
\* (a lock that admits every caller)
CanLockUnguarded(t) == TRUE

CanLock(t) == lock = NoThread

\* A call begins (a tool request arrives, or main dispatches the subcommand)
\* and dereferences DLL.  In CLI mode only the main thread runs, once.
Deref(t) ==
    /\ Running
    /\ th[t].pc = "idle"
    /\ proc = "cli" => t = 1
    /\ IF NeedsInit
       THEN /\ lazy' = "running"
            /\ Set(t, [th[t] EXCEPT !.pc = "load"])
       ELSE /\ lazy = "ready"
            /\ lazy' = lazy
            /\ Set(t, [th[t] EXCEPT !.pc = "lock"])
    /\ UNCHANGED <<fe, proc, libPresent, dll, loads, lock, native, last>>

\* EvDll::load().ok(): Some when the library and all its symbols resolve
EvDllLoad(t) ==
    /\ Running
    /\ th[t].pc = "load"
    /\ dll' = IF libPresent THEN "some" ELSE "none"
    /\ lazy' = "ready"
    /\ loads' = Min(loads + 1, MaxLoads)
    /\ Set(t, [th[t] EXCEPT !.pc = "lock"])
    /\ UNCHANGED <<fe, proc, libPresent, lock, native, last>>

\* DLL.lock() succeeds.  The call's arguments are local to the caller and are
\* first read under the guard, so they are bound here.
Lock(t) ==
    /\ Running
    /\ th[t].pc = "lock"
    /\ CanLock(t)
    /\ lock' = t
    /\ \E a \in (IF proc = "cli" THEN CliCalls ELSE ToolCalls) :
          Set(t, [th[t] EXCEPT !.pc = "as_ref", !.op = a.op, !.q = a.q,
                               !.max = a.max, !.case = a.case, !.word = a.word,
                               !.regex = a.regex, !.path = a.path])
    /\ UNCHANGED <<fe, proc, libPresent, lazy, dll, loads, native, last>>

\* (a finished load taken for a successful one)
LoadedUnchecked == dll # "unset"

\* guard.as_ref() is Some
Loaded == dll = "some"

\* outcomes that are failures of the call
Failures == {"unavailable", "invalid", "failed"}

\* (a guard released by hand on the success paths only)
ReleasedOnSuccess(t) == IF th[t].kind \in Failures THEN lock ELSE NoThread

\* the guard goes out of scope on every return of search and everything_status
Released(t) == NoThread

\* guard.as_ref(): None ends the call before any entry point is used
AsRef(t) ==
    LET r == th[t] IN
    /\ Running
    /\ r.pc = "as_ref"
    /\ IF ~Loaded
       THEN IF r.op = "status" /\ proc = "cli"
            THEN Set(t, [r EXCEPT !.pc = "exit1", !.kind = "unavailable",
                                  !.ret = <<Lit("Everything64.dll not loaded")>>])
            ELSE Set(t, [r EXCEPT !.pc = "ret", !.kind = "unavailable",
                                  !.ret = <<Lit("DLL not loaded")>>])
       ELSE Set(t, [r EXCEPT !.pc = IF r.op = "search" THEN "conv" ELSE "is_loaded"])
    /\ UNCHANGED <<fe, proc, libPresent, lazy, dll, loads, lock, native, last>>

(******************************* search ************************************)
\* let qw = match U16CString::from_str(q) ...
Conv(t) ==
    LET r == th[t]
        c == U16CStringFromStr(r.q)
    IN
    /\ Running
    /\ r.pc = "conv"
    /\ IF c.ok
       THEN Set(t, [r EXCEPT !.pc = "set_search", !.qw = c.w,
                             !.was = native.regex])
       ELSE Set(t, [r EXCEPT !.pc = "ret", !.kind = "invalid",
                             !.ret = <<Lit("Query: "), Err([nul_at |-> c.pos])>>])
    /\ UNCHANGED <<fe, proc, libPresent, lazy, dll, loads, lock, native, last>>

\* one setter: the entry point f stores v in field f of the library's state
Setter(t, at, f, v, next) ==
    /\ Running
    /\ th[t].pc = at
    /\ native' = [native EXCEPT ![f] = v]
    /\ Set(t, Ffi([th[t] EXCEPT !.pc = next], at))
    /\ UNCHANGED <<fe, proc, libPresent, lazy, dll, loads, lock, last>>

\* (only the upper limit applied)
CapArgUpperOnly(max) == IF U32Lt(U32Of(CapMax), max) THEN U32Of(CapMax) ELSE max

\* the value search() passes to set_max
CapArg(max) == Clamp(max, U32Of(CapMin), U32Of(CapMax))

\* (regex mode switched on when asked for, never switched off)
SetRegexWhenAsked(t) ==
    Setter(t, "set_regex", "regex",
           IF th[t].regex THEN 1 ELSE native.regex, "set_path")

SetSearch(t) == Setter(t, "set_search", "search", th[t].qw, "set_max")
SetMax(t) == Setter(t, "set_max", "max", CapArg(th[t].max), "set_case")
SetCase(t) == Setter(t, "set_case", "case", AsI32(th[t].case), "set_word")
SetWord(t) == Setter(t, "set_word", "word", AsI32(th[t].word), "set_regex")
SetRegex(t) == Setter(t, "set_regex", "regex", AsI32(th[t].regex), "set_path")
SetPath(t) == Setter(t, "set_path", "path", AsI32(th[t].path), "set_flags")
SetFlags(t) == Setter(t, "set_flags", "flags", RequestFlags, "query")

\* the number of rows the library materialises: min(max, tot)
Materialised(max, tot) == IF U32Lt(max, U32Of(tot)) THEN max[2] ELSE tot

\* (the query's return value ignored)
AfterQueryUnchecked(ok) == "get_num"

\* (a guard scoped to the configure+query part only)
GuardDroppedAfterQuery(t) == NoThread

\* the guard obtained in search() lives until search() returns
GuardAfterQuery(t) == lock

\* if (dll.query)(1) == 0 { return ... get_err() ... }; let n = get_num()
AfterQuery(ok) == IF ok THEN "get_num" ELSE "get_err"

\* (dll.query)(1): the library runs the configured search.  It fails (returns 0,
\* leaving an error code and the old result list) or succeeds with tot matches,
\* of which it materialises at most max.
Query(t) ==
    LET r == th[t] IN
    /\ Running
    /\ r.pc = "query"
    /\ \/ \E e \in ErrCodes :
            /\ native' = [native EXCEPT !.err = e]
            /\ Set(t, Ffi([r EXCEPT !.pc = AfterQuery(FALSE),
                                    !.atq = [valid |-> TRUE, ok |-> FALSE,
                                             cfg |-> native']],
                          "query"))
       \/ \E tot \in 0..MaxTotal :
            /\ native' = [native EXCEPT !.tot = tot, !.num = Materialised(native.max, tot),
                                        !.err = 0]
            /\ Set(t, Ffi([r EXCEPT !.pc = AfterQuery(TRUE),
                                    !.atq = [valid |-> TRUE, ok |-> TRUE,
                                             cfg |-> native']],
                          "query"))
    /\ lock' = GuardAfterQuery(t)
    /\ UNCHANGED <<fe, proc, libPresent, lazy, dll, loads, last>>

\* the query returned 0: format!("Query failed ({}). Is Everything running?", get_err())
GetErr(t) ==
    LET r == th[t] IN
    /\ Running
    /\ r.pc = "get_err"
    /\ Set(t, Ffi([r EXCEPT !.pc = "ret", !.kind = "failed",
                            !.ret = <<Lit("Query failed ("), Num(native.err),
                                      Lit("). Is Everything running?")>>],
                  "get_err"))
    /\ UNCHANGED <<fe, proc, libPresent, lazy, dll, loads, lock, native, last>>

\* (the converted wide text echoed instead of q)
NoResultsTextWide(r) == <<Lit("No results for: "), Txt(r.qw)>>

\* format!("No results for: {}", q)
NoResultsText(r) == <<Lit("No results for: "), Txt(r.q)>>

\* let n = get_num(); if n == 0 { return "No results for: {q}" }
GetNum(t) ==
    LET r == th[t] IN
    /\ Running
    /\ r.pc = "get_num"
    /\ IF native.num = 0
       THEN Set(t, Ffi([r EXCEPT !.pc = "ret", !.kind = "noresults", !.n = 0,
                                 !.ret = NoResultsText(r)],
                       "get_num"))
       ELSE Set(t, Ffi([r EXCEPT !.pc = "get_tot", !.n = native.num], "get_num"))
    /\ UNCHANGED <<fe, proc, libPresent, lazy, dll, loads, lock, native, last>>

\* let mut out = format!("Found {} (showing {}):\n\n", get_tot(), n); buf = zeros
GetTot(t) ==
    LET r == th[t] IN
    /\ Running
    /\ r.pc = "get_tot"
    /\ Set(t, Ffi([r EXCEPT !.pc = "get_path", !.i = 0, !.buf = <<>>,
                            !.out = <<Lit("Found "), Num(native.tot),
                                      Lit(" (showing "), Num(r.n), Lit("):\n\n")>>],
                  "get_tot"))
    /\ UNCHANGED <<fe, proc, libPresent, lazy, dll, loads, lock, native, last>>

\* The buffer holds its written prefix; every unit past it is still 0.  The
\* library writes the path, cut to the capacity, and its terminator over the
\* front of the buffer.
WriteBuf(old, path) ==
    LET w == SubSeq(path, 1, Min(Len(path), BufLen - 1)) \o <<0>>
    IN  w \o SubSeq(old, Len(w) + 1, Len(old))

\* get_path(i, buf, len): an index outside the result list writes nothing
GetPath(t) ==
    LET r == th[t] IN
    /\ Running
    /\ r.pc = "get_path"
    /\ Set(t, Ffi([r EXCEPT !.pc = "get_attr",
                            !.buf = IF r.i < native.num
                                    THEN WriteBuf(r.buf, RowPath(r.i + 1))
                                    ELSE r.buf],
                  "get_path"))
    /\ UNCHANGED <<fe, proc, libPresent, lazy, dll, loads, lock, native, last>>

\* buf[..end], end the position of the first 0 (or the buffer's length)
UpToNul(buf) ==
    LET p == Position(buf, 0) IN
    IF p = 0 THEN buf ELSE SubSeq(buf, 1, p - 1)

\* (attr & 0x10) != 0
IsDirAttr(attr) == (attr \div DirBit) % 2 = 1

\* one row line: "{} {}\n" with the marker and the decoded path
RowLine(buf, attr) ==
    <<Lit(IF IsDirAttr(attr) THEN "[DIR]" ELSE "[FILE]"), Lit(" "),
      Txt(FromUtf16Lossy(UpToNul(buf))), Lit("\n")>>

\* decode the buffer, read get_attr(i), push the row's line; after the last row
\* the text is returned
GetAttr(t) ==
    LET r == th[t]
        attr == IF r.i < native.num THEN RowAttr(r.i + 1) ELSE InvalidAttr
        out == r.out \o RowLine(r.buf, attr)
    IN
    /\ Running
    /\ r.pc = "get_attr"
    /\ IF r.i + 1 < r.n
       THEN Set(t, Ffi([r EXCEPT !.pc = "get_path", !.i = r.i + 1, !.out = out],
                       "get_attr"))
       ELSE Set(t, Ffi([r EXCEPT !.pc = "ret", !.i = r.i + 1, !.out = out,
                                 !.kind = "found", !.ret = out],
                       "get_attr"))
    /\ UNCHANGED <<fe, proc, libPresent, lazy, dll, loads, lock, native, last>>

(******************************* status ************************************)
\* (dll.is_loaded)() != 0, in everything_status and in cli_status
IsLoaded(t) ==
    LET r == th[t] IN
    /\ Running
    /\ r.pc = "is_loaded"
    /\ \E ld \in BOOLEAN :
          IF ld
          THEN Set(t, Ffi([r EXCEPT !.pc = "get_ver", !.i = 0, !.out = <<>>],
                          "is_loaded"))
          ELSE IF proc = "cli"
          THEN Set(t, Ffi([r EXCEPT !.pc = "exit1", !.kind = "notready",
                             !.ret = <<Lit("Everything not available. Is it running?")>>],
                          "is_loaded"))
          ELSE Set(t, Ffi([r EXCEPT !.pc = "ret", !.kind = "notready",
                                    !.ret = <<Lit("Not available")>>],
                          "is_loaded"))
    /\ UNCHANGED <<fe, proc, libPresent, lazy, dll, loads, lock, native, last>>

\* "v{}.{}.{}.{} Ready" (tool), "Everything v{}.{}.{}.{} - Ready" (CLI)
StatusText(v) ==
    <<Lit(IF proc = "cli" THEN "Everything v" ELSE "v"), v[1], Lit("."), v[2],
      Lit("."), v[3], Lit("."), v[4],
      Lit(IF proc = "cli" THEN " - Ready" ELSE " Ready")>>

\* (dll.get_ver[i])(), the four components in order
GetVer(t) ==
    LET r == th[t]
        out == Append(r.out, Num(Version[r.i + 1]))
    IN
    /\ Running
    /\ r.pc = "get_ver"
    /\ IF r.i + 1 < 4
       THEN Set(t, Ffi([r EXCEPT !.i = r.i + 1, !.out = out], "get_ver"))
       ELSE Set(t, Ffi([r EXCEPT !.pc = "ret", !.i = r.i + 1, !.out = out,
                                 !.kind = "ready", !.ret = StatusText(out)],
                       "get_ver"))
    /\ UNCHANGED <<fe, proc, libPresent, lazy, dll, loads, lock, native, last>>

(*************************** leaving the call ******************************)
\* The text is handed to the caller and the guard is dropped.  A CLI subcommand
\* prints it and main returns.
Return(t) ==
    /\ Running
    /\ th[t].pc = "ret"
    /\ lock' = Released(t)
    /\ last' = th[t].kind
    /\ Set(t, Idle)
    /\ proc' = IF proc = "cli" THEN "exit0" ELSE proc
    /\ UNCHANGED <<fe, libPresent, lazy, dll, loads, native>>

\* cli_status: std::process::exit(1) with the guard still in scope
ExitFailure(t) ==
    /\ Running
    /\ th[t].pc = "exit1"
    /\ proc' = "exit1"
    /\ last' = th[t].kind
    /\ UNCHANGED <<fe, libPresent, lazy, dll, loads, lock, native, th>>

\* The environment: the library appears on, or disappears from, the load path.
\* A loaded library is pinned (Box::leak), so only changes before or after a
\* failed load are of interest.
LibraryChange ==
    /\ Running
    /\ dll # "some"
    /\ libPresent' = ~libPresent
    /\ UNCHANGED <<fe, proc, lazy, dll, loads, lock, native, th, last>>

Step(t) ==
    \/ Deref(t) \/ EvDllLoad(t) \/ Lock(t) \/ AsRef(t) \/ Conv(t)
    \/ SetSearch(t) \/ SetMax(t) \/ SetCase(t) \/ SetWord(t) \/ SetRegex(t)
    \/ SetPath(t) \/ SetFlags(t) \/ Query(t) \/ GetErr(t) \/ GetNum(t)
    \/ GetTot(t) \/ GetPath(t) \/ GetAttr(t) \/ IsLoaded(t) \/ GetVer(t)
    \/ Return(t) \/ ExitFailure(t)

Next == (\E t \in Threads : Step(t)) \/ LibraryChange

Spec == Init /\ [][Next]_vars

\* every thread that can take a step eventually takes one (the scheduler runs
\* each runnable thread; native calls return)
FairSpec == Spec /\ \A t \in Threads : WF_vars(Step(t))

(***************************************************************************)
(*                 the front ends: building the query                      *)
(***************************************************************************)
(* The literals of the handlers' format strings, as scalar values.         *)
\* "ext:"
LExt ==
    <<101, 120, 116, 58>>

\* " | "
LOr ==
    <<32, 124, 32>>

\* "("
LOpen ==
    <<40>>

\* ") "
LClose ==
    <<41, 32>>

\* " "
LSpace ==
    <<32>>

\* "ext:mp3;wav;flac;aac;ogg;wma;m4a"
LAudio ==
    <<101, 120, 116, 58, 109, 112, 51, 59, 119, 97, 118, 59, 102, 108, 97,
      99, 59, 97, 97, 99, 59, 111, 103, 103, 59, 119, 109, 97, 59, 109, 52, 97>>

\* "ext:mp4;avi;mkv;mov;wmv;flv;webm"
LVideo ==
    <<101, 120, 116, 58, 109, 112, 52, 59, 97, 118, 105, 59, 109, 107, 118,
      59, 109, 111, 118, 59, 119, 109, 118, 59, 102, 108, 118, 59, 119, 101,
      98, 109>>

\* "ext:jpg;jpeg;png;gif;bmp;svg;webp;ico"
LImage ==
    <<101, 120, 116, 58, 106, 112, 103, 59, 106, 112, 101, 103, 59, 112, 110,
      103, 59, 103, 105, 102, 59, 98, 109, 112, 59, 115, 118, 103, 59, 119,
      101, 98, 112, 59, 105, 99, 111>>

\* "ext:pdf;doc;docx;xls;xlsx;ppt;pptx;txt;md"
LDoc ==
    <<101, 120, 116, 58, 112, 100, 102, 59, 100, 111, 99, 59, 100, 111, 99,
      120, 59, 120, 108, 115, 59, 120, 108, 115, 120, 59, 112, 112, 116, 59,
      112, 112, 116, 120, 59, 116, 120, 116, 59, 109, 100>>

\* "ext:cs;py;js;ts;java;cpp;c;h;go;rs;rb;php;ps1"
LCode ==
    <<101, 120, 116, 58, 99, 115, 59, 112, 121, 59, 106, 115, 59, 116, 115,
      59, 106, 97, 118, 97, 59, 99, 112, 112, 59, 99, 59, 104, 59, 103, 111,
      59, 114, 115, 59, 114, 98, 59, 112, 104, 112, 59, 112, 115, 49>>

\* "ext:zip;rar;7z;tar;gz;bz2;iso"
LArchive ==
    <<101, 120, 116, 58, 122, 105, 112, 59, 114, 97, 114, 59, 55, 122, 59,
      116, 97, 114, 59, 103, 122, 59, 98, 122, 50, 59, 105, 115, 111>>

\* "ext:exe;msi;bat;cmd;ps1;sh"
LExe ==
    <<101, 120, 116, 58, 101, 120, 101, 59, 109, 115, 105, 59, 98, 97, 116,
      59, 99, 109, 100, 59, 112, 115, 49, 59, 115, 104>>

\* """
LQuote ==
    <<34>>

\* "\" "
LFolderEnd ==
    <<92, 34, 32>>

\* "folder: "
LFolder ==
    <<102, 111, 108, 100, 101, 114, 58, 32>>

\* "dm:last"
LDmLast ==
    <<100, 109, 58, 108, 97, 115, 116>>

\* "days"
LDays ==
    <<100, 97, 121, 115>>

\* " ext:"
LSpaceExt ==
    <<32, 101, 120, 116, 58>>

\* "dc:"
LDc ==
    <<100, 99, 58>>

\* "dm:"
LDm ==
    <<100, 109, 58>>

\* "size:"
LSize ==
    <<115, 105, 122, 101, 58>>

\* "size:>"
LSizeGt ==
    <<115, 105, 122, 101, 58, 62>>

\* "100mb"
L100mb ==
    <<49, 48, 48, 109, 98>>

\* "video"
LTypeVideo ==
    <<118, 105, 100, 101, 111>>

\* "audio"
LTypeAudio ==
    <<97, 117, 100, 105, 111>>

\* "archive"
LTypeArchive ==
    <<97, 114, 99, 104, 105, 118, 101>>

\* " ext:mp4;avi;mkv;mov"
LLargeVideo ==
    <<32, 101, 120, 116, 58, 109, 112, 52, 59, 97, 118, 105, 59, 109, 107,
      118, 59, 109, 111, 118>>

\* " ext:mp3;wav;flac"
LLargeAudio ==
    <<32, 101, 120, 116, 58, 109, 112, 51, 59, 119, 97, 118, 59, 102, 108,
      97, 99>>

\* " ext:zip;rar;7z;iso"
LLargeArchive ==
    <<32, 101, 120, 116, 58, 122, 105, 112, 59, 114, 97, 114, 59, 55, 122,
      59, 105, 115, 111>>

\* "empty: "
LEmptyKw ==
    <<101, 109, 112, 116, 121, 58, 32>>

\* "empty:"
LEmpty ==
    <<101, 109, 112, 116, 121, 58>>

\* "attrib:H"
LHidden ==
    <<97, 116, 116, 114, 105, 98, 58, 72>>

\* "content:""
LContent ==
    <<99, 111, 110, 116, 101, 110, 116, 58, 34>>

\* "dupe: "
LDupe ==
    <<100, 117, 112, 101, 58, 32>>

\* "!"
LBang ==
    <<33>>

Comma == 44
Semicolon == 59
Dot == 46

\* char::is_whitespace (the White_Space property)
IsWhitespace(c) ==
    \/ c \in 9..13 \/ c = 32 \/ c = 133 \/ c = 160 \/ c = 5760
    \/ c \in 8192..8202 \/ c \in {8232, 8233, 8239, 8287, 12288}

\* str::trim_start / trim_end / trim
RECURSIVE TrimStart(_)
TrimStart(s) ==
    IF s # <<>> /\ IsWhitespace(Head(s)) THEN TrimStart(Tail(s)) ELSE s

RECURSIVE TrimEnd(_)
TrimEnd(s) ==
    IF s # <<>> /\ IsWhitespace(s[Len(s)])
    THEN TrimEnd(SubSeq(s, 1, Len(s) - 1))
    ELSE s

Trim(s) == TrimEnd(TrimStart(s))

\* str::trim_start_matches('.')
RECURSIVE TrimStartDots(_)
TrimStartDots(s) ==
    IF s # <<>> /\ Head(s) = Dot THEN TrimStartDots(Tail(s)) ELSE s

\* str::split(','): one more piece than there are commas
RECURSIVE SplitFrom(_, _, _)
SplitFrom(s, k, piece) ==
    IF k > Len(s) THEN <<piece>>
    ELSE IF s[k] = Comma THEN <<piece>> \o SplitFrom(s, k + 1, <<>>)
    ELSE SplitFrom(s, k + 1, Append(piece, s[k]))

Split(s) == SplitFrom(s, 1, <<>>)

\* [T]::join(sep)
RECURSIVE Join(_, _)
Join(parts, sep) ==
    IF parts = <<>> THEN <<>>
    ELSE IF Len(parts) = 1 THEN parts[1]
    ELSE parts[1] \o sep \o Join(Tail(parts), sep)

\* str::replace(',', ";")
ReplaceCommas(s) == [k \in DOMAIN s |-> IF s[k] = Comma THEN Semicolon ELSE s[k]]

\* str::to_lowercase, on the ASCII letters
ToLowercase(s) ==
    [k \in DOMAIN s |-> IF s[k] \in 65..90 THEN s[k] + 32 ELSE s[k]]

\* a u32 printed by {}: its decimal digits
RECURSIVE Decimal(_)
Decimal(k) == IF k < 10 THEN <<48 + k>> ELSE Decimal(k \div 10) \o <<48 + (k % 10)>>

\* Option<T>
None(d) == [some |-> FALSE, v |-> d]
Some(x) == [some |-> TRUE, v |-> x]
UnwrapOr(o, d) == IF o.some THEN o.v ELSE d

\* Option<String>::filter(|k| !k.is_empty())
NonEmpty(o) == o.some /\ o.v # <<>>

\* the arguments of one call of search()
Args(q, max, case, word, regex, path) ==
    [q |-> q, max |-> max, case |-> case, word |-> word, regex |-> regex,
     path |-> path]

\* search(&q, p.max_results.unwrap_or(50), false, false, false, false)
Plain(q, max) == Args(q, UnwrapOr(max, U32Of(50)), FALSE, FALSE, FALSE, FALSE)

\* if let Some(k) = keywords.filter(|k| !k.is_empty()) { q.push_str(" {k}") }
WithKeywords(q, keywords) ==
    IF NonEmpty(keywords) THEN q \o LSpace \o keywords.v ELSE q

(************************** the tool handlers ******************************)
\* A request p carries the handler's fields: text and text2 its required
\* strings, o1 and o2 its optional strings, max its optional cap, days, and the
\* optional modifiers of everything_search.

everything_search(p) ==
    Args(p.text, UnwrapOr(p.max, U32Of(50)), UnwrapOr(p.case, FALSE),
         UnwrapOr(p.word, FALSE), UnwrapOr(p.regex, FALSE),
         UnwrapOr(p.path, FALSE))

\* extensions.split(',').map(|e| e.trim().trim_start_matches('.'))
ExtEntries(extensions) ==
    LET parts == Split(extensions)
    IN  [k \in DOMAIN parts |-> TrimStartDots(Trim(parts[k]))]

\* the query of the extension search, tool and CLI
ExtQuery(extensions, keywords) ==
    LET es == ExtEntries(extensions)
        eq == Join([k \in DOMAIN es |-> LExt \o es[k]], LOr)
    IN  IF NonEmpty(keywords) THEN LOpen \o eq \o LClose \o keywords.v ELSE eq

everything_search_ext(p) == Plain(ExtQuery(p.text, p.o1), p.max)

everything_search_audio(p) == Plain(WithKeywords(LAudio, p.o1), p.max)
everything_search_video(p) == Plain(WithKeywords(LVideo, p.o1), p.max)
everything_search_image(p) == Plain(WithKeywords(LImage, p.o1), p.max)
everything_search_doc(p) == Plain(WithKeywords(LDoc, p.o1), p.max)
everything_search_code(p) == Plain(WithKeywords(LCode, p.o1), p.max)
everything_search_archive(p) == Plain(WithKeywords(LArchive, p.o1), p.max)
everything_search_exe(p) == Plain(WithKeywords(LExe, p.o1), p.max)

\* format!("\"{}\\\" {}", folder_path, query)
everything_search_in_folder(p) ==
    Plain(LQuote \o p.text \o LFolderEnd \o p.text2, p.max)

everything_search_folders(p) == Plain(LFolder \o p.text, p.max)

\* format!("dm:last{}days", days), then " ext:{}" with the leading dots cut
RecentQuery(days, ext) ==
    LDmLast \o Decimal(days) \o LDays
    \o (IF NonEmpty(ext) THEN LSpaceExt \o TrimStartDots(ext.v) ELSE <<>>)

everything_recent(p) == Plain(RecentQuery(UnwrapOr(p.days, 1), p.o1), p.max)

everything_search_date_created(p) ==
    Plain(WithKeywords(LDc \o p.text, p.o1), p.max)

everything_search_date_modified(p) ==
    Plain(WithKeywords(LDm \o p.text, p.o1), p.max)

everything_search_size(p) == Plain(WithKeywords(LSize \o p.text, p.o1), p.max)

\* match ft.to_lowercase().as_str() { "video" => ..., _ => "" }
LargeExt(ft) ==
    IF ft = LTypeVideo THEN LLargeVideo
    ELSE IF ft = LTypeAudio THEN LLargeAudio
    ELSE IF ft = LTypeArchive THEN LLargeArchive
    ELSE <<>>

\* a builder that writes min_size after "size:" as it was given, and ">100mb"
\* when it was not given
LargeQueryVerbatim(min_size, file_type) ==
    LSize \o UnwrapOr(min_size, <<62>> \o L100mb)
    \o (IF file_type.some THEN LargeExt(ToLowercase(file_type.v)) ELSE <<>>)

\* format!("size:>{}", min_size.unwrap_or("100mb")), then the file type's set
LargeQuery(min_size, file_type) ==
    LSizeGt \o UnwrapOr(min_size, L100mb)
    \o (IF file_type.some THEN LargeExt(ToLowercase(file_type.v)) ELSE <<>>)

everything_search_large(p) == Plain(LargeQuery(p.o1, p.o2), p.max)

everything_search_empty(p) ==
    Plain(IF NonEmpty(p.o1) THEN LEmptyKw \o p.o1.v ELSE LEmpty, p.max)

everything_search_hidden(p) == Plain(WithKeywords(LHidden, p.o1), p.max)

\* o1 the extensions, o2 the folder, text the content; the cap defaults to 20
everything_search_content(p) ==
    Args((IF NonEmpty(p.o2) THEN LQuote \o p.o2.v \o LFolderEnd ELSE <<>>)
         \o (IF NonEmpty(p.o1) THEN LExt \o ReplaceCommas(p.o1.v) \o LSpace
             ELSE <<>>)
         \o LContent \o p.text \o LQuote,
         UnwrapOr(p.max, U32Of(20)), FALSE, FALSE, FALSE, FALSE)

everything_search_regex(p) ==
    Args(p.text, UnwrapOr(p.max, U32Of(50)), FALSE, FALSE, TRUE, FALSE)

\* (the duplicate search with the common default)
everything_find_duplicates_50(p) == Plain(LDupe \o p.text, p.max)

\* the cap defaults to 100
everything_find_duplicates(p) ==
    Args(LDupe \o p.text, UnwrapOr(p.max, U32Of(100)), FALSE, FALSE, FALSE, FALSE)

\* text the query, text2 the exclude list
everything_search_exclude(p) ==
    LET parts == Split(p.text2)
    IN  Plain(p.text \o LSpace
              \o Join([k \in DOMAIN parts |-> LBang \o Trim(parts[k])], LSpace),
              p.max)

\* text the terms, o1 the and_filter
everything_search_or(p) ==
    LET parts == Split(p.text)
        oq == Join([k \in DOMAIN parts |-> Trim(parts[k])], LOr)
    IN  Plain(IF NonEmpty(p.o1) THEN LOpen \o oq \o LClose \o p.o1.v ELSE oq,
              p.max)

(************************** the CLI subcommands ****************************)
\* #[arg(short = 'n', long, default_value = "20")] max: u32
CliMax(p) == UnwrapOr(p.max, U32Of(20))

\* Commands::Search: search(&query, max, case, false, regex, false)
CliSearch(p) ==
    Args(p.text, CliMax(p), UnwrapOr(p.case, FALSE), FALSE,
         UnwrapOr(p.regex, FALSE), FALSE)

\* Commands::Ext
CliExt(p) == Args(ExtQuery(p.text, p.o1), CliMax(p), FALSE, FALSE, FALSE, FALSE)

\* Commands::Recent, days defaulting to 1
CliRecent(p) ==
    Args(RecentQuery(UnwrapOr(p.days, 1), p.o1), CliMax(p),
         FALSE, FALSE, FALSE, FALSE)

\* Commands::Large, size defaulting to "100mb"
CliLarge(p) ==
    Args(LSizeGt \o UnwrapOr(p.o1, L100mb), CliMax(p), FALSE, FALSE, FALSE, FALSE)

(***************************** requests ************************************)
\* longest extension list drawn
MaxLen == 3

\* all texts over alphabet A of length at most n
TextsUpTo(A, n) == UNION {[1..k -> A] : k \in 0..n}

\* space, '.', ',', 'p', 'P'
ExtAlphabet == {32, Dot, Comma, 112, 80}
ExtTexts == TextsUpTo(ExtAlphabet, MaxLen)

NoText == None(<<>>)
NoCap == None(U32Of(0))
NoFlag == None(FALSE)

\* "k"
TextK == <<107>>
\* "a"
TextA == <<97>>
\* ".log"
TextDotLog == <<46, 108, 111, 103>>
\* "tmp, bak"
TextTmpBak == <<116, 109, 112, 44, 32, 98, 97, 107>>
\* "1gb"
Text1gb == <<49, 103, 98>>
\* ">1gb"
TextGt1gb == <<62, 49, 103, 98>>
\* "Video"
TextVideoCap == <<86, 105, 100, 101, 111>>
\* "py,js"
TextPyJs == <<112, 121, 44, 106, 115>>

OptTexts == {NoText, Some(<<>>), Some(TextK)}
OptCaps == {NoCap, Some(U32Of(0)), Some(U32Of(7)), Some(U32Max)}
OptFlags == {NoFlag, Some(FALSE), Some(TRUE)}

BaseReq ==
    [front |-> "tool", entry |-> "everything_search", text |-> TextA,
     text2 |-> TextA, o1 |-> NoText, o2 |-> NoText, max |-> NoCap,
     days |-> None(0), case |-> NoFlag, word |-> NoFlag, regex |-> NoFlag,
     path |-> NoFlag]

\* the handlers that take keywords (or one string) and a cap
KeywordTools ==
    {"everything_search_audio",
     "everything_search_video",
     "everything_search_image",
     "everything_search_doc",
     "everything_search_code",
     "everything_search_archive",
     "everything_search_exe",
     "everything_search_folders",
     "everything_search_date_created",
     "everything_search_date_modified",
     "everything_search_size",
     "everything_search_empty",
     "everything_search_hidden",
     "everything_search_regex",
     "everything_find_duplicates"}

ToolRequests ==
    {[BaseReq EXCEPT !.max = m, !.case = c, !.word = w, !.regex = r, !.path = x] :
        m \in OptCaps, c \in OptFlags, w \in {NoFlag, Some(TRUE)},
        r \in {NoFlag, Some(TRUE)}, x \in {NoFlag, Some(TRUE)}}
    \cup {[BaseReq EXCEPT !.entry = "everything_search_ext", !.text = e,
                          !.o1 = k, !.max = m] :
             e \in ExtTexts, k \in OptTexts, m \in {NoCap, Some(U32Of(7))}}
    \cup {[BaseReq EXCEPT !.entry = n, !.o1 = k, !.max = m] :
             n \in KeywordTools, k \in OptTexts, m \in OptCaps}
    \cup {[BaseReq EXCEPT !.entry = "everything_search_in_folder", !.max = m] :
             m \in OptCaps}
    \cup {[BaseReq EXCEPT !.entry = "everything_recent", !.days = d, !.o1 = k,
                          !.max = m] :
             d \in {None(0), Some(0), Some(7), Some(30)},
             k \in OptTexts \cup {Some(TextDotLog)}, m \in OptCaps}
    \cup {[BaseReq EXCEPT !.entry = "everything_search_large", !.o1 = k,
                          !.o2 = f, !.max = m] :
             k \in {NoText, Some(Text1gb), Some(TextGt1gb)},
             f \in {NoText, Some(LTypeVideo), Some(TextVideoCap),
                    Some(LTypeAudio), Some(LTypeArchive), Some(TextA)},
             m \in OptCaps}
    \cup {[BaseReq EXCEPT !.entry = "everything_search_content", !.o1 = k,
                          !.o2 = f, !.max = m] :
             k \in {NoText, Some(<<>>), Some(TextPyJs)}, f \in OptTexts,
             m \in OptCaps}
    \cup {[BaseReq EXCEPT !.entry = "everything_search_exclude",
                          !.text2 = x, !.max = m] :
             x \in {TextA, TextTmpBak}, m \in OptCaps}
    \cup {[BaseReq EXCEPT !.entry = "everything_search_or", !.text = x,
                          !.o1 = k, !.max = m] :
             x \in {TextA, TextTmpBak}, k \in OptTexts, m \in OptCaps}
    \cup {[BaseReq EXCEPT !.entry = "everything_status"]}

CliRequests ==
    {[BaseReq EXCEPT !.front = "cli", !.entry = "Search", !.max = m, !.case = c,
                     !.regex = r] :
        m \in OptCaps, c \in {NoFlag, Some(TRUE)}, r \in {NoFlag, Some(TRUE)}}
    \cup {[BaseReq EXCEPT !.front = "cli", !.entry = "Ext", !.text = e, !.o1 = k,
                          !.max = m] :
             e \in ExtTexts, k \in OptTexts, m \in {NoCap, Some(U32Of(7))}}
    \cup {[BaseReq EXCEPT !.front = "cli", !.entry = "Recent", !.days = d,
                          !.o1 = k, !.max = m] :
             d \in {None(0), Some(7)}, k \in OptTexts \cup {Some(TextDotLog)},
             m \in OptCaps}
    \cup {[BaseReq EXCEPT !.front = "cli", !.entry = "Large", !.o1 = k,
                          !.max = m] :
             k \in {NoText, Some(Text1gb)}, m \in OptCaps}
    \cup {[BaseReq EXCEPT !.front = "cli", !.entry = "Status"]}

(***************************** dispatch ************************************)
\* the tool router: the handler named by the request
ToolHandler(p) ==
    CASE
         p.entry = "everything_search" -> everything_search(p)
      [] p.entry = "everything_search_ext" -> everything_search_ext(p)
      [] p.entry = "everything_search_audio" -> everything_search_audio(p)
      [] p.entry = "everything_search_video" -> everything_search_video(p)
      [] p.entry = "everything_search_image" -> everything_search_image(p)
      [] p.entry = "everything_search_doc" -> everything_search_doc(p)
      [] p.entry = "everything_search_code" -> everything_search_code(p)
      [] p.entry = "everything_search_archive" -> everything_search_archive(p)
      [] p.entry = "everything_search_exe" -> everything_search_exe(p)
      [] p.entry = "everything_search_in_folder" -> everything_search_in_folder(p)
      [] p.entry = "everything_search_folders" -> everything_search_folders(p)
      [] p.entry = "everything_recent" -> everything_recent(p)
      [] p.entry = "everything_search_date_created" -> everything_search_date_created(p)
      [] p.entry = "everything_search_date_modified" -> everything_search_date_modified(p)
      [] p.entry = "everything_search_size" -> everything_search_size(p)
      [] p.entry = "everything_search_large" -> everything_search_large(p)
      [] p.entry = "everything_search_empty" -> everything_search_empty(p)
      [] p.entry = "everything_search_hidden" -> everything_search_hidden(p)
      [] p.entry = "everything_search_content" -> everything_search_content(p)
      [] p.entry = "everything_search_regex" -> everything_search_regex(p)
      [] p.entry = "everything_find_duplicates" -> everything_find_duplicates(p)
      [] p.entry = "everything_search_exclude" -> everything_search_exclude(p)
      [] p.entry = "everything_search_or" -> everything_search_or(p)

\* main: match cli.command
CliHandler(p) ==
    CASE p.entry = "Search" -> CliSearch(p)
      [] p.entry = "Ext" -> CliExt(p)
      [] p.entry = "Recent" -> CliRecent(p)
      [] p.entry = "Large" -> CliLarge(p)

\* a tool request is handled up to the handler's call of search(), or of the
\* status operation
ToolCall ==
    /\ fe.pc = "request"
    /\ fe.p.front = "tool"
    /\ fe' = IF fe.p.entry = "everything_status"
             THEN [pc |-> "status", p |-> fe.p]
             ELSE [pc |-> "search", p |-> fe.p, args |-> ToolHandler(fe.p)]
    /\ UNCHANGED exec

\* a subcommand is handled up to its call of search(), or of cli_status()
CliCommand ==
    /\ fe.pc = "request"
    /\ fe.p.front = "cli"
    /\ fe' = IF fe.p.entry = "Status"
             THEN [pc |-> "status", p |-> fe.p]
             ELSE [pc |-> "search", p |-> fe.p, args |-> CliHandler(fe.p)]
    /\ UNCHANGED exec

\* one request reaches a front end
InitFront ==
    /\ proc \in {"mcp", "cli"}
    /\ libPresent = TRUE
    /\ lazy = "uninit"
    /\ dll = "unset"
    /\ loads = 0
    /\ lock = NoThread
    /\ native = NativeInit
    /\ th = [t \in Threads |-> Idle]
    /\ last = "none"
    /\ \E p \in ToolRequests \cup CliRequests :
          /\ p.front = "cli" <=> proc = "cli"
          /\ fe = [pc |-> "request", p |-> p]

NextFront == ToolCall \/ CliCommand

SpecFront == InitFront /\ [][NextFront]_vars

(***************************************************************************)
(*                            properties                                   *)
(***************************************************************************)
Called(t, f) == \E k \in DOMAIN th[t].ffi : th[t].ffi[k] = f

HasNul(q) == \E k \in DOMAIN q : q[k] = 0

Setters ==
    <<"set_search", "set_max", "set_case", "set_word", "set_regex", "set_path",
      "set_flags">>

\* the library field each setter writes, in the order search() calls them
Fields == <<"search", "max", "case", "word", "regex", "path", "flags">>

\* the positions of search() from the first setter to the query call
ConfigOrder == Setters \o <<"query">>

Reading == {"get_err", "get_num", "get_tot", "get_path", "get_attr"}

\* the value a call with arguments r asks the library to hold in field f
Wanted(r, f) ==
    CASE f = "search" -> ToUtf16(r.q)
      [] f = "max" -> IF r.max = U32Of(0) THEN U32Of(1)
                      ELSE IF r.max[1] > 0 \/ r.max[2] > 500 THEN U32Of(500)
                      ELSE r.max
      [] f = "case" -> IF r.case THEN 1 ELSE 0
      [] f = "word" -> IF r.word THEN 1 ELSE 0
      [] f = "regex" -> IF r.regex THEN 1 ELSE 0
      [] f = "path" -> IF r.path THEN 1 ELSE 0
      [] f = "flags" -> 275

\* the text of a successful search over rows 1..num of the index
RECURSIVE RowsText(_)
RowsText(num) ==
    IF num = 0 THEN <<>>
    ELSE RowsText(num - 1)
         \o <<Lit(IF RowAttr(num) \in {16, 48} THEN "[DIR]" ELSE "[FILE]"),
              Lit(" "), Txt(FromUtf16Lossy(RowPath(num))), Lit("\n")>>

FoundText(tot, num) ==
    <<Lit("Found "), Num(tot), Lit(" (showing "), Num(num), Lit("):\n\n")>>
    \o RowsText(num)

\* a caller waiting for the mutex can take it, or its holder can take a step
CanProceed(t) == ENABLED Lock(t) \/ \E u \in Threads : lock = u /\ ENABLED Step(u)

\* C1: at most one caller, search or status, is between acquiring the global
\* lock and returning, and that caller is the one the mutex names as its owner.
MutualExclusion ==
    /\ Cardinality({t \in Threads : th[t].pc \in Inside}) <= 1
    /\ \A t \in Threads : th[t].pc \in Inside => lock = t

\* one caller is at the query entry point while another waits for the lock
MutualExclusionWitness ==
    \E t, u \in Threads : t # u /\ th[t].pc = "query" /\ th[u].pc = "lock"

LockReleasedOnExit ==
    /\ \A t \in Threads : lock = t => th[t].pc \in Inside
    /\ \A t \in Threads :
          th[t].pc = "lock" /\ Running /\ last \in Failures => CanProceed(t)

\* after a failed call, a later call holds the lock and is about to return
LockReleasedOnExitWitness ==
    /\ last \in Failures
    /\ \E t \in Threads : th[t].pc = "ret" /\ th[t].kind = "found" /\ lock = t

\* C4: with the library not loaded, a search returns the text "DLL not loaded"
\* as its first step under the lock, and no entry point is ever invoked.
EngineUnavailable ==
    /\ dll # "some" => native = NativeInit
    /\ \A t \in Threads :
          LET r == th[t] IN
          r.op = "search" /\ dll # "some" /\ r.pc \in Inside \ {"as_ref"} =>
             /\ r.pc = "ret"
             /\ r.ret = <<Lit("DLL not loaded")>>
             /\ r.ffi = <<>>

\* a search returns "DLL not loaded" after an earlier call did so too
EngineUnavailableWitness ==
    /\ dll = "none"
    /\ last = "unavailable"
    /\ \E t \in Threads : th[t].op = "search" /\ th[t].pc = "ret"

\* C5: EvDll::load runs at most once; once the handle is Some or None it stays
\* so, also when the library appears after a failed load.
LoadAtMostOnce ==
    /\ [](loads <= 1)
    /\ [][dll # "unset" => dll' = dll]_vars
    /\ [][lazy = "ready" => lazy' = "ready"]_vars

\* the library is present now, the cached failure is still what a call observes
LoadAtMostOnceWitness ==
    /\ dll = "none" /\ libPresent /\ loads = 1
    /\ last = "unavailable"
    /\ \E t \in Threads : th[t].pc = "ret" /\ th[t].kind = "unavailable"

\* C6: the value passed to set_max is the requested cap brought into [1, 500],
\* and a search whose query text is valid always reaches the query call,
\* whatever its cap.
CapClamped ==
    \A t \in Threads :
       LET r == th[t] IN
       r.op = "search" =>
          /\ Called(t, "set_max") /\ r.pc # "ret" =>
                /\ native.max = Wanted(r, "max")
                /\ native.max[1] = 0 /\ native.max[2] >= 1 /\ native.max[2] <= 500
          /\ r.pc = "ret" /\ dll = "some" /\ ~HasNul(r.q) =>
                r.atq.valid /\ r.atq.cfg.max = Wanted(r, "max")

\* a search asked for u32::MAX rows and the library was told 500
CapClampedWitness ==
    \E t \in Threads :
       th[t].max = U32Max /\ th[t].pc = "query" /\ native.max = U32Of(500)

\* C7: when the query returns zero the search reads the last-error code and
\* returns the query-failed text with that code; it calls no result entry point
\* and calls query once.
QueryFailed ==
    \A t \in Threads :
       LET r == th[t] IN
       r.op = "search" /\ r.atq.valid /\ ~r.atq.ok =>
          /\ r.pc \in {"get_err", "ret"}
          /\ r.pc = "get_err" => r.ffi = Setters \o <<"query">>
          /\ r.pc = "ret" =>
                /\ r.ffi = Setters \o <<"query", "get_err">>
                /\ r.kind = "failed"
                /\ r.ret = <<Lit("Query failed ("), Num(r.atq.cfg.err),
                             Lit("). Is Everything running?")>>

\* a search succeeds right after a search whose query failed
QueryFailedWitness ==
    /\ last = "failed"
    /\ \E t \in Threads : th[t].pc = "ret" /\ th[t].kind = "found"

\* C8: when the query succeeds with no materialised row the search returns
\* exactly "No results for: " followed by the query text it was called with; it
\* has read the count only, and the library holds no error.
NoResults ==
    \A t \in Threads :
       LET r == th[t] IN
       r.op = "search" /\ r.atq.valid /\ r.atq.ok /\ r.atq.cfg.num = 0
       /\ r.pc # "get_num" =>
          /\ r.pc = "ret"
          /\ r.kind = "noresults"
          /\ r.ret = <<Lit("No results for: "), Txt(r.q)>>
          /\ r.ffi = Setters \o <<"query", "get_num">>
          /\ r.atq.cfg.err = 0

\* the query with the surrogate pair found nothing
NoResultsWitness ==
    \E t \in Threads :
       th[t].q = QB /\ th[t].pc = "ret" /\ th[t].kind = "noresults"

\* the default a handler is written with
WrittenDefault(p) ==
    IF p.front = "cli" THEN 20
    ELSE IF p.entry = "everything_search_content" THEN 20
    ELSE IF p.entry = "everything_find_duplicates" THEN 100
    ELSE 50

\* C9 (as stated): whenever the request omits the result cap, the cap search()
\* is called with is 50, and 50 is what set_max receives.
DefaultCapIs50 ==
    fe.pc = "search" /\ ~fe.p.max.some =>
        fe.args.max = U32Of(50) /\ CapArg(fe.args.max) = U32Of(50)

\* C9 (amended): when the request omits the result cap, the cap is 50 for the
\* tool handlers other than content search (20) and duplicate search (100), and
\* 20 for every CLI subcommand; the default is in [1, 500], so set_max receives
\* it unchanged.  A cap that is given is what search() is called with.
DefaultCapByHandler ==
    fe.pc = "search" =>
        /\ ~fe.p.max.some =>
              /\ fe.args.max = U32Of(WrittenDefault(fe.p))
              /\ CapArg(fe.args.max) = fe.args.max
        /\ fe.p.max.some => fe.args.max = fe.p.max.v

\* the duplicate search is called without a cap and asks for 100 rows
DefaultCapByHandlerWitness ==
    /\ fe.pc = "search"
    /\ fe.p.entry = "everything_find_duplicates"
    /\ ~fe.p.max.some
    /\ fe.args.max = U32Of(100)

\* an entry with whitespace and leading dots stripped until nothing is left to
\* strip
RECURSIVE Stripped(_)
Stripped(e) ==
    LET x == TrimStartDots(Trim(e)) IN IF x = e THEN e ELSE Stripped(x)

\* C10: the extension search (tool and CLI) produces ext:e1 | ext:e2 | ... with
\* whitespace and leading dots stripped from every entry, order and case kept,
\* so that trimming an emitted entry again changes nothing; with a non-empty
\* keyword the OR set is parenthesised and the keyword follows one space.
ExtEntriesStripped ==
    fe.pc = "search" /\ fe.p.entry \in {"everything_search_ext", "Ext"} =>
        LET parts == Split(fe.p.text)
            emitted == ExtEntries(fe.p.text)
            eq == Join([k \in DOMAIN parts |-> LExt \o Stripped(parts[k])], LOr)
        IN  /\ \A k \in DOMAIN emitted :
                  TrimStartDots(Trim(emitted[k])) = emitted[k]
            /\ fe.args.q = IF fe.p.o1.some /\ fe.p.o1.v # <<>>
                           THEN LOpen \o eq \o LClose \o fe.p.o1.v
                           ELSE eq

\* "size:>100mb ext:mp4;avi;mkv;mov"
LargeVideoScenario ==
    <<115, 105, 122, 101, 58, 62, 49, 48, 48, 109, 98, 32, 101, 120, 116,
      58, 109, 112, 52, 59, 97, 118, 105, 59, 109, 107, 118, 59, 109, 111,
      118>>

\* "size:>1gb ext:mp4;avi;mkv;mov"
LargeVideo1gb ==
    <<115, 105, 122, 101, 58, 62, 49, 103, 98, 32, 101, 120, 116, 58, 109,
      112, 52, 59, 97, 118, 105, 59, 109, 107, 118, 59, 109, 111, 118>>

\* the request is a large-file search, from either front end
IsLarge(p) == p.entry \in {"everything_search_large", "Large"}

\* the extension set appended for the request's file type: the type is
\* compared in lower case, and the CLI subcommand has no file type
LargeSetOf(p) ==
    IF p.front = "cli" \/ ~p.o2.some THEN <<>>
    ELSE LET ft == ToLowercase(p.o2.v)
         IN  IF ft = LTypeVideo THEN LSpaceExt \o <<109, 112, 52, 59, 97, 118, 105, 59, 109, 107, 118, 59, 109, 111, 118>>
             ELSE IF ft = LTypeAudio THEN LSpaceExt \o <<109, 112, 51, 59, 119, 97, 118, 59, 102, 108, 97, 99>>
             ELSE IF ft = LTypeArchive THEN LSpaceExt \o <<122, 105, 112, 59, 114, 97, 114, 59, 55, 122, 59, 105, 115, 111>>
             ELSE <<>>

\* C11 (as stated): the large-file builder emits size:<expr>, where <expr> is
\* min_size as the caller wrote it, or >100mb when min_size is not given, and
\* then the extension set of the file type video, audio or archive, nothing
\* for any other file type.
LargeSizeVerbatim ==
    fe.pc = "search" /\ IsLarge(fe.p) =>
        fe.args.q = LSize
                    \o (IF fe.p.o1.some THEN fe.p.o1.v ELSE <<62>> \o L100mb)
                    \o LargeSetOf(fe.p)

\* C11 (amended): the large-file builder emits size:> followed by min_size as
\* the caller wrote it, or by 100mb when min_size is not given, and then the
\* extension set of the file type video, audio or archive (compared in lower
\* case), nothing for any other file type and nothing from the CLI; no min_size
\* with file type video gives size:>100mb ext:mp4;avi;mkv;mov.  No modifier is
\* set.
LargeSizeAbove ==
    fe.pc = "search" /\ IsLarge(fe.p) =>
        /\ fe.args.q = LSize \o <<62>>
                       \o (IF fe.p.o1.some THEN fe.p.o1.v ELSE L100mb)
                       \o LargeSetOf(fe.p)
        /\ fe.p.front = "tool" /\ ~fe.p.o1.some /\ fe.p.o2 = Some(LTypeVideo)
              => fe.args.q = LargeVideoScenario
        /\ ~fe.args.case /\ ~fe.args.word /\ ~fe.args.regex /\ ~fe.args.path

\* the large-file tool is called with min_size "1gb" and file type "Video"
LargeSizeAboveWitness ==
    /\ fe.pc = "search"
    /\ fe.p.entry = "everything_search_large"
    /\ fe.p.o1 = Some(Text1gb)
    /\ fe.p.o2 = Some(TextVideoCap)
    /\ fe.args.q = LargeVideo1gb

\* the index, counted from 0, of the first nul among the UTF-16 units of q
FirstNul(q) ==
    LET w == ToUtf16(q)
    IN  (CHOOSE k \in DOMAIN w : w[k] = 0 /\ \A j \in 1..(k - 1) : w[j] # 0) - 1

\* thread t takes a step of a call whose query text holds a nul
StepsWithNul(t) ==
    /\ th'[t] # th[t]
    /\ \/ th[t].op = "search" /\ HasNul(th[t].q)
       \/ th'[t].op = "search" /\ HasNul(th'[t].q)

\* C12: a search whose query text holds a nul returns the text "Query: <error>"
\* right after the conversion, with no setter and no query entry point invoked;
\* no step of such a call changes the library's state or the cached handle, so
\* what earlier calls configured is what it leaves behind.
InvalidQuery ==
    /\ [](\A t \in Threads :
            LET r == th[t] IN
            r.op = "search" /\ HasNul(r.q) /\ r.pc \in Inside \ {"as_ref", "conv"} =>
               /\ r.pc = "ret"
               /\ r.ffi = <<>>
               /\ ~r.atq.valid
               /\ dll = "some" =>
                     /\ r.kind = "invalid"
                     /\ r.ret = <<Lit("Query: "), Err([nul_at |-> FirstNul(r.q)])>>)
    /\ [][\A t \in Threads :
            StepsWithNul(t) => native' = native /\ dll' = dll /\ lazy' = lazy]_vars

\* a search for "a\0b" has returned the invalid-query text while the library
\* still holds what an earlier successful search for U+1F4C1 "b" configured
InvalidQueryWitness ==
    /\ last = "found"
    /\ native.search = ToUtf16(QB)
    /\ native.tot > 0
    /\ \E t \in Threads :
          /\ th[t].q = QNul
          /\ th[t].pc = "ret"
          /\ th[t].kind = "invalid"
          /\ th[t].ffi = <<>>

\* C13: when a search invokes the query entry point, the library's search text,
\* cap, case, whole-word, regex, path and request-flags settings are the ones
\* this call asked for, each set once by this call and in the order of the
\* code, whatever earlier calls left there; regex mode left on by an earlier
\* search is off in the query of a search that did not ask for it.
NoCarryOver ==
    \A t \in Threads :
       LET r == th[t] IN
       r.op = "search" =>
          /\ r.pc = "query" =>
                /\ r.ffi = Setters
                /\ native.search = ToUtf16(r.q)
                /\ native.max = CapArg(r.max)
                /\ native.case = (IF r.case THEN 1 ELSE 0)
                /\ native.word = (IF r.word THEN 1 ELSE 0)
                /\ native.regex = (IF r.regex THEN 1 ELSE 0)
                /\ native.path = (IF r.path THEN 1 ELSE 0)
                /\ native.flags = 275
          /\ r.atq.valid =>
                /\ SubSeq(r.ffi, 1, Len(ConfigOrder)) = ConfigOrder
                /\ \A j \in DOMAIN Fields : r.atq.cfg[Fields[j]] = Wanted(r, Fields[j])
                /\ r.was = 1 /\ ~r.regex => r.atq.cfg.regex = 0

\* a search without regex found regex mode on in the library, left there by an
\* earlier search, and its own query has run with regex mode off
NoCarryOverWitness ==
    \E t \in Threads :
       /\ th[t].op = "search"
       /\ ~th[t].regex
       /\ th[t].was = 1
       /\ th[t].atq.valid /\ th[t].atq.ok
       /\ th[t].atq.cfg.regex = 0
       /\ th[t].pc = "ret" /\ th[t].kind = "found"

====
